---- MODULE Spec2Model ----
(***************************************************************************)
(* Model of cc-alchemy-statusline (src/index.mjs): credential resolution,  *)
(* the render invocation, the detached --fetch-only child and the cache    *)
(* file they share.                                                        *)
(***************************************************************************)
EXTENDS Integers, Sequences, FiniteSets, TLC

\* ---------------------------------------------------------------- bounds
\* Number of render invocations in a run; the child spawned by render r is
\* child r.
MaxRenders == 2

Renders == 1..MaxRenders

\* ------------------------------------------------- credential resolution
\* Credential sources in the order getToken consults them.
SrcEnv == 1
SrcKeychain == 2
SrcWinCred == 3
\* credPaths entries: CREDS_FILE, APPDATA/Claude, APPDATA/claude-code,
\* LOCALAPPDATA/Claude.
SrcFileHome == 4
SrcFileAppdataClaude == 5
SrcFileAppdataCode == 6
SrcFileLocalappdata == 7

FileSources == SrcFileHome..SrcFileLocalappdata

\* null
NoToken == 0

Platforms == {"darwin", "win32", "linux"}

\* What a store holds / how querying it ends:
\*   "absent"    file does not exist / the tool prints nothing
\*   "fail"      tool missing, access denied, command timeout, unreadable file
\*   "malformed" content is not JSON
\*   "nofield"   JSON without a non-empty claudeAiOauth.accessToken
\*   "token"     JSON holding a non-empty claudeAiOauth.accessToken
Outcomes == {"absent", "fail", "malformed", "nofield", "token"}

\* Token values lie apart from every other value of the model.
TokenBase == 100

\* The token a source holds is identified with the source, so that the
\* source a result came from is visible in the result.
TokenOf(s) == TokenBase + s

\* Control outcome of a block of getToken: it returned a value, fell through
\* to the next statement, or threw.
Return(v) == [kind |-> "return", val |-> v]
FallThrough == [kind |-> "next", val |-> NoToken]
Throw == [kind |-> "throw", val |-> NoToken]

\* try { ... } catch {}
Catch(x) == IF x.kind = "throw" THEN FallThrough ELSE x

\* const token = JSON.parse(raw)?.claudeAiOauth?.accessToken; if (token) return token;
parseAccessToken(s, o) ==
  CASE o = "token" -> Return(TokenOf(s))
    [] o = "nofield" -> FallThrough
    [] OTHER -> Throw

\* Body of the try block of the macOS keychain lookup.
keychainBody(cfg) ==
  IF cfg.keychain = "fail" THEN Throw
  ELSE parseAccessToken(SrcKeychain, cfg.keychain)

\* Body of the try block of the Windows credential manager lookup.
winCredBody(cfg) ==
  IF cfg.wincred = "fail" THEN Throw
  ELSE IF cfg.wincred = "absent" THEN FallThrough
  ELSE parseAccessToken(SrcWinCred, cfg.wincred)

\* Body of the try block of one credential file.
fileBody(cfg, p) ==
  IF cfg.files[p] = "absent" THEN FallThrough
  ELSE IF cfg.files[p] = "fail" THEN Throw
  ELSE parseAccessToken(p, cfg.files[p])

IS_WIN(cfg) == cfg.platform = "win32"

credPaths(cfg) ==
  <<SrcFileHome>>
  \o (IF IS_WIN(cfg) /\ cfg.appdata
      THEN <<SrcFileAppdataClaude, SrcFileAppdataCode>> ELSE <<>>)
  \o (IF IS_WIN(cfg) /\ cfg.localappdata
      THEN <<SrcFileLocalappdata>> ELSE <<>>)

RECURSIVE fileLoop(_, _)
fileLoop(cfg, paths) ==
  IF paths = <<>> THEN Return(NoToken)
  ELSE LET r == Catch(fileBody(cfg, Head(paths)))
       IN IF r.kind = "next" THEN fileLoop(cfg, Tail(paths)) ELSE r

\* getToken with the credential files consulted before the platform stores.
getToken_filesFirst(cfg) ==
  IF cfg.env THEN Return(TokenOf(SrcEnv))
  ELSE LET f == fileLoop(cfg, credPaths(cfg))
       IN IF f.val # NoToken THEN f
          ELSE LET k == IF cfg.platform = "darwin"
                        THEN Catch(keychainBody(cfg)) ELSE FallThrough
               IN IF k.kind # "next" THEN k
                  ELSE LET w == IF IS_WIN(cfg)
                                THEN Catch(winCredBody(cfg)) ELSE FallThrough
                       IN IF w.kind # "next" THEN w ELSE Return(NoToken)

\* getToken with the keychain lookup outside any try block.
getToken_noCatch(cfg) ==
  IF cfg.env THEN Return(TokenOf(SrcEnv))
  ELSE LET k == IF cfg.platform = "darwin"
                THEN keychainBody(cfg) ELSE FallThrough
       IN IF k.kind # "next" THEN k
          ELSE LET w == IF IS_WIN(cfg)
                        THEN Catch(winCredBody(cfg)) ELSE FallThrough
               IN IF w.kind # "next" THEN w
                  ELSE fileLoop(cfg, credPaths(cfg))

getToken(cfg) ==
  IF cfg.env THEN Return(TokenOf(SrcEnv))
  ELSE LET k == IF cfg.platform = "darwin"
                THEN Catch(keychainBody(cfg)) ELSE FallThrough
       IN IF k.kind # "next" THEN k
          ELSE LET w == IF IS_WIN(cfg)
                        THEN Catch(winCredBody(cfg)) ELSE FallThrough
               IN IF w.kind # "next" THEN w
                  ELSE fileLoop(cfg, credPaths(cfg))

\* Every combination of platform and store contents.
AllCreds ==
  [platform : Platforms, env : BOOLEAN, keychain : Outcomes,
   wincred : Outcomes, appdata : BOOLEAN, localappdata : BOOLEAN,
   files : [FileSources -> Outcomes]]

\* --------------------------------------------------------- the cache file
Keys == {"five_hour", "seven_day"}

\* One lexical unit of the cache file's text.  v is the value that follows
\* the key (for cached_at the time stamp, for a usage window its record);
\* braces carry 0.
Tok(k, v) == [k |-> k, v |-> v]

\* A snapshot object; 0 stands for a field that is not present.
Snap(at, five, seven) == [cached_at |-> at, five_hour |-> five, seven_day |-> seven]

\* {}
EmptySnap == Snap(0, 0, 0)

\* stringify that writes at most one usage window.
stringify_oneWindow(s) ==
  <<Tok("{", 0), Tok("cached_at", s.cached_at)>>
  \o (IF s.five_hour # 0 THEN <<Tok("five_hour", s.five_hour)>>
      ELSE IF s.seven_day # 0 THEN <<Tok("seven_day", s.seven_day)>> ELSE <<>>)
  \o <<Tok("}", 0)>>

\* JSON.stringify(cache): keys in insertion order.
stringify(s) ==
  <<Tok("{", 0), Tok("cached_at", s.cached_at)>>
  \o (IF s.five_hour # 0 THEN <<Tok("five_hour", s.five_hour)>> ELSE <<>>)
  \o (IF s.seven_day # 0 THEN <<Tok("seven_day", s.seven_day)>> ELSE <<>>)
  \o <<Tok("}", 0)>>

\* Does the text parse as one JSON object (nothing before, nothing after).
wellFormed(b) ==
  /\ Len(b) >= 2
  /\ b[1].k = "{"
  /\ b[Len(b)].k = "}"
  /\ \A i \in 2..(Len(b) - 1) : b[i].k \notin {"{", "}"}

\* Value of member k of a well-formed text (a repeated key: the last wins).
member(b, k) ==
  LET idx == {i \in 1..Len(b) : b[i].k = k}
  IN IF idx = {} THEN 0
     ELSE b[CHOOSE i \in idx : \A j \in idx : j <= i].v

\* JSON.parse(text): throws on text that is not JSON.
parseJson(b) ==
  IF wellFormed(b)
  THEN Return(Snap(member(b, "cached_at"), member(b, "five_hour"),
                   member(b, "seven_day")))
  ELSE Throw

\* The file system's view of a file: whether it exists, whether this user
\* may read it, and its text.
AbsentFile == [exists |-> FALSE, readable |-> TRUE, bytes |-> <<>>]

\* readFileSync(path, "utf8"): throws on a file that cannot be read.
readFileSync(f) == IF f.readable THEN Return(f.bytes) ELSE Throw

\* loadJson without the try block.
loadJsonOutcome_noCatch(f) ==
  IF f.exists
  THEN LET t == readFileSync(f)
       IN IF t.kind = "throw" THEN Throw ELSE parseJson(t.val)
  ELSE Return(EmptySnap)

\* loadJson as a control outcome: what it returns, or that it threw.
loadJsonOutcome(f) ==
  LET r == Catch(IF f.exists
                 THEN LET t == readFileSync(f)
                      IN IF t.kind = "throw" THEN Throw ELSE parseJson(t.val)
                 ELSE Return(EmptySnap))
  IN IF r.kind = "return" THEN r ELSE Return(EmptySnap)

loadJson(f) == loadJsonOutcome(f).val

\* open(path, O_WRONLY | O_CREAT | O_TRUNC)
openTrunc(f) == [exists |-> TRUE, readable |-> TRUE, bytes |-> <<>>]

\* write(fd, buf) at offset 0 of a file another writer may have extended.
writeAt0(f, buf) ==
  [exists |-> TRUE, readable |-> TRUE,
   bytes |-> buf \o (IF Len(f.bytes) > Len(buf)
                     THEN SubSeq(f.bytes, Len(buf) + 1, Len(f.bytes))
                     ELSE <<>>)]

\* ------------------------------------------------------ render invocation
\* Standard input of a render invocation:
\*   "empty"    nothing but white space
\*   "invalid"  not JSON
\*   "null"     the JSON value null
\*   "value"    any other JSON value: a session object, or a number, string,
\*              boolean or array (data.model is then undefined and the
\*              defaults apply, as for an object without fields)
StdinKinds == {"empty", "invalid", "null", "value"}

\* A line on standard output.
Line(kind, five, seven) == [kind |-> kind, five |-> five, seven |-> seven]

\* console.log("No data")
FallbackLine == Line("No data", 0, 0)

\* The rendered line: the usage segments show cache[key], a missing window
\* shows the placeholder (0).
renderLine(cache) == Line("status", cache.five_hour, cache.seven_day)

RenderIdle ==
  [pc |-> "idle", stdin |-> "empty", cache |-> EmptySnap,
   trig |-> FALSE, spawned |-> FALSE, out |-> <<>>, exit |-> -1]

\* -------------------------------------------------------- fetch-only child
\* Bodies of a response that reached 'end':
\*   "nonjson" text that is not JSON
\*   "null"    the JSON value null
\*   "scalar"  a JSON number, string or boolean
\*   "object"  a JSON object; keys says which usage windows it carries
Bodies == {"nonjson", "null", "scalar", "object"}

\* HTTP status of a response.
StatusOk == 200
StatusDenied == 401
Statuses == {StatusOk, StatusDenied}

Responses ==
  {r \in [status : Statuses, body : Bodies, keys : SUBSET Keys] :
     r.body # "object" => r.keys = {}}

\* The responses of a run: a usage report with both windows or with the
\* short one only, an error report (a JSON object without usage windows) and
\* an error page that is not JSON.
RunResponses ==
  {r \in Responses :
     \/ r.status = StatusOk /\ r.body = "object" /\ r.keys \in {Keys, {"five_hour"}}
     \/ r.status = StatusDenied /\ r.body = "object" /\ r.keys = {}
     \/ r.status = StatusDenied /\ r.body = "nonjson"}

\* Arguments of the spawned process after the script path.
fetchOnlyArgv == <<Tok("--fetch-only", 0)>>

ChildNone ==
  [pc |-> "none", argv |-> <<>>, tok |-> NoToken, net |-> "none", status |-> 0,
   body |-> "none", keys |-> {}, buf |-> <<>>, req |-> 0, out |-> <<>>,
   exit |-> -1]

\* The 'end' handler up to JSON.stringify(cache): the text to write, or a
\* throw (JSON.parse on non-JSON, data[key] on null).
buildCache(c, resp) ==
  CASE resp.body = "nonjson" -> Throw
    [] resp.body = "null" -> Throw
    [] OTHER ->
         Return(stringify(Snap(c,
                               IF "five_hour" \in resp.keys THEN c ELSE 0,
                               IF "seven_day" \in resp.keys THEN c ELSE 0)))

\* Credential stores a run moves between: logged out, and logged in with the
\* token in ~/.claude/.credentials.json.
LoggedOut ==
  [platform |-> "linux", env |-> FALSE, keychain |-> "absent",
   wincred |-> "absent", appdata |-> FALSE, localappdata |-> FALSE,
   files |-> [p \in FileSources |-> "absent"]]

LoggedIn == [LoggedOut EXCEPT !.files[SrcFileHome] = "token"]

RunCreds == {LoggedOut, LoggedIn}

Pending == [kind |-> "pending", val |-> NoToken]

\* Interactive bootstrap runs, numbered in the order they are made.
MaxBoots == 2

Boots == 1..MaxBoots

BootIdle == [pc |-> "idle", out |-> <<>>, exit |-> -1]

VARIABLES creds, tokres, cacheFile, rend, child, settings, boot, saved,
          loaded, secsIn, timeTxt

\* The settings file and the bootstrap runs.
bootVars == <<settings, boot>>

\* Argument and result of save/load taken alone, and of the time text.
pureVars == <<saved, loaded, secsIn, timeTxt>>

vars == <<creds, tokres, cacheFile, rend, child, bootVars, pureVars>>

\* No time text computed yet.
NoText == [form |-> "none", a |-> 0, b |-> 0]

\* The values of the variables a specification does not use.
BootUnused == settings = AbsentFile /\ boot = [b \in Boots |-> BootIdle]

PureUnused ==
  saved = EmptySnap /\ loaded = Pending /\ secsIn = 0 /\ timeTxt = NoText

\* ------------------------------------------------------------------ steps
\* RenderStart with the trigger called before standard input is looked at.
RenderStart_triggerFirst(r, in) ==
  /\ rend[r].pc = "idle"
  /\ r > 1 => rend[r - 1].pc # "idle"
  /\ rend' = [rend EXCEPT ![r] =
       IF in \in {"empty", "invalid"}
       THEN [rend[r] EXCEPT !.pc = "exited", !.stdin = in, !.trig = TRUE,
                            !.out = <<FallbackLine>>, !.exit = 0]
       ELSE [rend[r] EXCEPT !.pc = "parsed", !.stdin = in]]
  /\ UNCHANGED <<bootVars, pureVars, creds, tokres, cacheFile, child>>

\* main(), lines 281-293: read and parse standard input.  Invocations are
\* numbered in the order they start.
RenderStart(r, in) ==
  /\ rend[r].pc = "idle"
  /\ r > 1 => rend[r - 1].pc # "idle"
  /\ rend' = [rend EXCEPT ![r] =
       IF in \in {"empty", "invalid"}
       THEN [rend[r] EXCEPT !.pc = "exited", !.stdin = in,
                            !.out = <<FallbackLine>>, !.exit = 0]
       ELSE [rend[r] EXCEPT !.pc = "parsed", !.stdin = in]]
  /\ UNCHANGED <<bootVars, pureVars, creds, tokres, cacheFile, child>>

\* RenderLoadCache that leaves an empty cache file where it found none.
RenderLoadCache_create(r) ==
  /\ rend[r].pc = "parsed"
  /\ rend' = [rend EXCEPT ![r] =
       [rend[r] EXCEPT !.pc = "loaded", !.cache = loadJson(cacheFile)]]
  /\ cacheFile' = IF cacheFile.exists THEN cacheFile ELSE openTrunc(cacheFile)
  /\ UNCHANGED <<bootVars, pureVars, creds, tokres, child>>

\* main(), line 296: const cache = loadJson(CACHE_FILE).
RenderLoadCache(r) ==
  /\ rend[r].pc = "parsed"
  /\ rend' = [rend EXCEPT ![r] =
       [rend[r] EXCEPT !.pc = "loaded", !.cache = loadJson(cacheFile)]]
  /\ UNCHANGED <<bootVars, pureVars, creds, tokres, cacheFile, child>>

\* fetchUsage that hands the resolved token to the child as an argument.
RenderFetchUsage_passToken(r) ==
  LET t == getToken(creds)
  IN /\ rend[r].pc = "loaded"
     /\ IF t.kind = "throw"
        THEN /\ rend' = [rend EXCEPT ![r] =
                  [rend[r] EXCEPT !.pc = "exited", !.trig = TRUE, !.exit = 1]]
             /\ UNCHANGED child
        ELSE IF t.val = NoToken
        THEN /\ rend' = [rend EXCEPT ![r] =
                  [rend[r] EXCEPT !.pc = "triggered", !.trig = TRUE]]
             /\ UNCHANGED child
        ELSE /\ rend' = [rend EXCEPT ![r] =
                  [rend[r] EXCEPT !.pc = "triggered", !.trig = TRUE,
                                  !.spawned = TRUE]]
             /\ child' = [child EXCEPT ![r] =
                  [child[r] EXCEPT !.pc = "spawned",
                     !.argv = fetchOnlyArgv \o <<Tok("--token", t.val)>>]]
     /\ UNCHANGED <<bootVars, pureVars, creds, tokres, cacheFile>>

\* fetchUsage(): resolve a credential, spawn the detached child.
RenderFetchUsage(r) ==
  LET t == getToken(creds)
  IN /\ rend[r].pc = "loaded"
     /\ IF t.kind = "throw"
        THEN /\ rend' = [rend EXCEPT ![r] =
                  [rend[r] EXCEPT !.pc = "exited", !.trig = TRUE, !.exit = 1]]
             /\ UNCHANGED child
        ELSE IF t.val = NoToken
        THEN /\ rend' = [rend EXCEPT ![r] =
                  [rend[r] EXCEPT !.pc = "triggered", !.trig = TRUE]]
             /\ UNCHANGED child
        ELSE /\ rend' = [rend EXCEPT ![r] =
                  [rend[r] EXCEPT !.pc = "triggered", !.trig = TRUE,
                                  !.spawned = TRUE]]
             /\ child' = [child EXCEPT ![r] =
                  [child[r] EXCEPT !.pc = "spawned", !.argv = fetchOnlyArgv]]
     /\ UNCHANGED <<bootVars, pureVars, creds, tokres, cacheFile>>

\* RenderOutput that waits for the exit of the child it spawned.
RenderOutput_awaitChild(r) ==
  /\ rend[r].pc = "triggered"
  /\ rend[r].spawned => child[r].pc = "exited"
  /\ rend' = [rend EXCEPT ![r] =
       IF rend[r].stdin = "null"
       THEN [rend[r] EXCEPT !.pc = "exited", !.exit = 1]
       ELSE [rend[r] EXCEPT !.pc = "exited",
                            !.out = <<renderLine(rend[r].cache)>>,
                            !.exit = 0]]
  /\ UNCHANGED <<bootVars, pureVars, creds, tokres, cacheFile, child>>

\* main(), lines 299-356: build the line and print it.  data.model on null
\* is an uncaught TypeError: nothing is printed, the exit status is 1.
RenderOutput(r) ==
  /\ rend[r].pc = "triggered"
  /\ rend' = [rend EXCEPT ![r] =
       IF rend[r].stdin = "null"
       THEN [rend[r] EXCEPT !.pc = "exited", !.exit = 1]
       ELSE [rend[r] EXCEPT !.pc = "exited",
                            !.out = <<renderLine(rend[r].cache)>>,
                            !.exit = 0]]
  /\ UNCHANGED <<bootVars, pureVars, creds, tokres, cacheFile, child>>

\* ChildStart that sends the request whether or not a credential was found.
ChildStart_noExit(c) ==
  LET t == getToken(creds)
  IN /\ child[c].pc = "spawned"
     /\ child' = [child EXCEPT ![c] =
          [child[c] EXCEPT !.pc = "requested", !.tok = t.val,
                           !.req = child[c].req + 1]]
     /\ UNCHANGED <<bootVars, pureVars, creds, tokres, cacheFile, rend>>

\* fetchOnly() up to req.end(): resolve the credential, exit 1 without one,
\* else send the request.
ChildStart(c) ==
  LET t == getToken(creds)
  IN /\ child[c].pc = "spawned"
     /\ child' = [child EXCEPT ![c] =
          IF t.kind = "throw" \/ t.val = NoToken
          THEN [child[c] EXCEPT !.pc = "exited", !.exit = 1]
          ELSE [child[c] EXCEPT !.pc = "requested", !.tok = t.val,
                                !.req = child[c].req + 1]]
     /\ UNCHANGED <<bootVars, pureVars, creds, tokres, cacheFile, rend>>

\* res.on("data"): a chunk of the body arrives.  Traffic on the socket
\* restarts its inactivity timer (the timeout option of the request).
ChildData(c) ==
  /\ child[c].pc = "requested"
  /\ child' = [child EXCEPT ![c] = [child[c] EXCEPT !.pc = "receiving"]]
  /\ UNCHANGED <<bootVars, pureVars, creds, tokres, cacheFile, rend>>

\* The response pauses: the socket carries nothing and its inactivity timer
\* runs.
ChildStall(c) ==
  /\ child[c].pc = "receiving"
  /\ child' = [child EXCEPT ![c] = [child[c] EXCEPT !.pc = "requested"]]
  /\ UNCHANGED <<bootVars, pureVars, creds, tokres, cacheFile, rend>>

\* ChildError that sends the request again.
ChildError_retry(c) ==
  /\ child[c].pc \in {"requested", "receiving"}
  /\ child' = [child EXCEPT ![c] =
       [child[c] EXCEPT !.pc = "requested", !.net = "error",
                        !.req = child[c].req + 1]]
  /\ UNCHANGED <<bootVars, pureVars, creds, tokres, cacheFile, rend>>

\* req.on("error"): resolve, the process ends.
ChildError(c) ==
  /\ child[c].pc \in {"requested", "receiving"}
  /\ child' = [child EXCEPT ![c] =
       [child[c] EXCEPT !.pc = "exited", !.net = "error", !.exit = 0]]
  /\ UNCHANGED <<bootVars, pureVars, creds, tokres, cacheFile, rend>>

\* req.on("timeout"), emitted when the socket has been inactive for the
\* timeout: destroy the request, resolve, the process ends.
ChildTimeout(c) ==
  /\ child[c].pc = "requested"
  /\ child' = [child EXCEPT ![c] =
       [child[c] EXCEPT !.pc = "exited", !.net = "timeout", !.exit = 0]]
  /\ UNCHANGED <<bootVars, pureVars, creds, tokres, cacheFile, rend>>

\* res.on("end") up to the open of writeFileSync: parse the body, build the
\* cache object, open CACHE_FILE truncating it.  A throw is swallowed.
ChildEnd(c, resp) ==
  LET b == buildCache(c, resp)
      got == [child[c] EXCEPT !.net = "response", !.status = resp.status,
                              !.body = resp.body, !.keys = resp.keys]
  IN /\ child[c].pc \in {"requested", "receiving"}
     /\ IF b.kind = "throw"
        THEN /\ child' = [child EXCEPT ![c] =
                  [got EXCEPT !.pc = "exited", !.exit = 0]]
             /\ UNCHANGED cacheFile
        ELSE /\ child' = [child EXCEPT ![c] =
                  [got EXCEPT !.pc = "writing", !.buf = b.val]]
             /\ cacheFile' = openTrunc(cacheFile)
     /\ UNCHANGED <<bootVars, pureVars, creds, tokres, rend>>

\* The write of writeFileSync, then resolve(): the process ends.
ChildWrite(c) ==
  /\ child[c].pc = "writing"
  /\ cacheFile' = writeAt0(cacheFile, child[c].buf)
  /\ child' = [child EXCEPT ![c] =
       [child[c] EXCEPT !.pc = "exited", !.exit = 0]]
  /\ UNCHANGED <<bootVars, pureVars, creds, tokres, rend>>

\* The external authentication flow logs the user in or out.  The stores are
\* read only by getToken, so a change is taken when a resolution is next.
CredsChange ==
  /\ \/ \E r \in Renders : rend[r].pc = "loaded"
     \/ \E c \in Renders : child[c].pc = "spawned"
  /\ \E n \in RunCreds \ {creds} : creds' = n
  /\ UNCHANGED <<bootVars, pureVars, tokres, cacheFile, rend, child>>

Init ==
  /\ creds \in RunCreds
  /\ tokres = Pending
  /\ cacheFile = AbsentFile
  /\ rend = [r \in Renders |-> RenderIdle]
  /\ child = [c \in Renders |-> ChildNone]
  /\ BootUnused
  /\ PureUnused

Next ==
  \/ \E r \in Renders, in \in StdinKinds : RenderStart(r, in)
  \/ \E r \in Renders : RenderLoadCache(r)
  \/ \E r \in Renders : RenderFetchUsage(r)
  \/ \E r \in Renders : RenderOutput(r)
  \/ \E c \in Renders : ChildStart(c)
  \/ \E c \in Renders : ChildError(c)
  \/ \E c \in Renders : ChildTimeout(c)
  \/ \E c \in Renders, resp \in RunResponses : ChildEnd(c, resp)
  \/ \E c \in Renders : ChildWrite(c)
  \/ CredsChange

Spec == Init /\ [][Next]_vars

\* The same with the arrival of the body in view: chunks arrive and the
\* response pauses before it ends, fails or times out.
NextNet ==
  \/ Next
  \/ \E c \in Renders : ChildData(c)
  \/ \E c \in Renders : ChildStall(c)

\* A started child runs: its own steps are taken when they can be.  Nothing
\* is assumed of the network (data, pause, end, error).
FairSpec ==
  Init /\ [][NextNet]_vars
       /\ \A c \in Renders :
            /\ WF_vars(ChildStart(c))
            /\ WF_vars(ChildTimeout(c))
            /\ WF_vars(ChildWrite(c))

\* ---------------------------------------- specification: getToken alone
InitCred ==
  /\ creds \in AllCreds
  /\ tokres = Pending
  /\ cacheFile = AbsentFile
  /\ rend = [r \in Renders |-> RenderIdle]
  /\ child = [c \in Renders |-> ChildNone]
  /\ BootUnused
  /\ PureUnused

Resolve ==
  /\ tokres = Pending
  /\ tokres' = getToken(creds)
  /\ UNCHANGED <<bootVars, pureVars, creds, cacheFile, rend, child>>

NextCred == Resolve

SpecCred == InitCred /\ [][NextCred]_vars

\* ------------------------------------ specification: save and load alone
\* Longest text of a cache file found at the start.
MaxText == 4

\* Largest time stamp and usage record of a saved snapshot.
MaxVal == 2

TextAlphabet ==
  {Tok("{", 0), Tok("}", 0), Tok("cached_at", 1), Tok("five_hour", 1),
   Tok("seven_day", 1)}

Texts == UNION {[1..n -> TextAlphabet] : n \in 0..MaxText}

\* Cache files found at the start: missing, unreadable, or any text.
CacheFiles ==
  {AbsentFile}
  \cup {[exists |-> TRUE, readable |-> rd, bytes |-> t] :
          rd \in BOOLEAN, t \in Texts}

\* The cache objects the 'end' handler can build: cached_at and any subset
\* of the two usage windows.
FetchSnaps ==
  {Snap(at, f, sd) : at \in 1..MaxVal, f \in 0..MaxVal, sd \in 0..MaxVal}

InitCache ==
  /\ cacheFile \in CacheFiles
  /\ creds = LoggedOut
  /\ tokres = Pending
  /\ rend = [r \in Renders |-> RenderIdle]
  /\ child = [c \in Renders |-> ChildNone]
  /\ BootUnused
  /\ PureUnused

\* writeFileSync(CACHE_FILE, JSON.stringify(cache)) with no other process
\* running.  A file that cannot be opened makes it throw, which line 213
\* swallows: nothing is saved.
Save(s) ==
  /\ cacheFile.readable
  /\ cacheFile' = writeAt0(openTrunc(cacheFile), stringify(s))
  /\ saved' = s
  /\ loaded' = Pending
  /\ UNCHANGED <<creds, tokres, rend, child, bootVars, secsIn, timeTxt>>

\* loadJson(CACHE_FILE)
Load ==
  /\ loaded = Pending
  /\ loaded' = loadJsonOutcome(cacheFile)
  /\ UNCHANGED <<creds, tokres, cacheFile, rend, child, bootVars, saved,
                 secsIn, timeTxt>>

NextCache ==
  \/ \E s \in FetchSnaps : Save(s)
  \/ Load

SpecCache == InitCache /\ [][NextCache]_vars

\* ================================================================ claims
\* A fetch attempt of child c failed: network error, timeout, a status
\* other than 2xx, or a body that is not JSON.
FetchFailed(ch) ==
  \/ ch.net \in {"error", "timeout"}
  \/ ch.net = "response" /\ (ch.status # StatusOk \/ ch.body = "nonjson")

\* Child c has issued its write of the cache file.
Wrote(c) == child[c].pc = "exited" /\ child[c].buf # <<>>

\* C1: no step of a child whose fetch attempt failed changes the cache file.
C1_FailedFetchKeepsCache ==
  [][\A c \in Renders :
       (child'[c] # child[c] /\ FetchFailed(child'[c]))
         => cacheFile' = cacheFile]_vars

\* The file holds nothing (absent) or the whole text of one save.
WholeFile(f) ==
  \/ ~f.exists
  \/ \E c \in Renders :
       child[c].pc \in {"writing", "exited"} /\ child[c].buf # <<>>
         /\ f.bytes = child[c].buf

\* C2: whenever a renderer loads the cache file, the file it reads is either
\* absent or the complete text of one save, never a partially written file.
C2_LoadSeesWholeFile ==
  [][\A r \in Renders :
       (rend[r].pc = "parsed" /\ rend'[r].pc = "loaded")
         => WholeFile(cacheFile)]_vars

\* C3: the cache file is absent or empty while no fetch has written, else it
\* equals the complete snapshot of one fetch that wrote; with no child in
\* flight it is the snapshot of a writer.
C3_OneFetchSnapshot ==
  /\ \/ /\ \A c \in Renders : ~Wrote(c)
        /\ cacheFile.bytes = <<>>
     \/ \E c \in Renders : Wrote(c) /\ cacheFile.bytes = child[c].buf
  /\ (/\ \A c \in Renders : child[c].pc \in {"none", "exited"}
      /\ \E c \in Renders : Wrote(c))
       => \E c \in Renders : Wrote(c) /\ cacheFile.bytes = child[c].buf

\* C4: a render invocation that has ended printed exactly one line and exited
\* with status 0; for empty or invalid standard input the line is the
\* fallback line.
C4_RenderNeverFails ==
  \A r \in Renders :
    rend[r].pc = "exited" =>
      /\ rend[r].exit = 0
      /\ Len(rend[r].out) = 1
      /\ rend[r].stdin \in {"empty", "invalid"} => rend[r].out = <<FallbackLine>>

\* C5: after the trigger the render invocation never waits: in every state
\* in which an invocation has triggered the refresh, its final step (print
\* the line, end) can be taken, whatever the state of its child, of the
\* other processes and of the cache file.
C5_RenderNeverWaits ==
  \A r \in Renders : rend[r].pc = "triggered" => ENABLED RenderOutput(r)

\* A render invocation has printed its line and ended while the child it
\* spawned has not taken a step.
C5_Witness ==
  \E r \in Renders :
    /\ rend[r].pc = "exited" /\ rend[r].spawned /\ Len(rend[r].out) = 1
    /\ child[r].pc = "spawned"

Applicable(cfg, s) ==
  CASE s = SrcEnv -> TRUE
    [] s = SrcKeychain -> cfg.platform = "darwin"
    [] s = SrcWinCred -> cfg.platform = "win32"
    [] s = SrcFileHome -> TRUE
    [] s \in {SrcFileAppdataClaude, SrcFileAppdataCode} ->
         cfg.platform = "win32" /\ cfg.appdata
    [] OTHER -> cfg.platform = "win32" /\ cfg.localappdata

\* What querying source s yields.
OutcomeOf(cfg, s) ==
  CASE s = SrcEnv -> IF cfg.env THEN "token" ELSE "absent"
    [] s = SrcKeychain -> cfg.keychain
    [] s = SrcWinCred -> cfg.wincred
    [] OTHER -> cfg.files[s]

\* Source s is consulted and holds a non-empty token.
Holds(cfg, s) == Applicable(cfg, s) /\ OutcomeOf(cfg, s) = "token"

Sources == SrcEnv..SrcFileLocalappdata

\* C7: getToken returns the token of the highest-priority applicable source
\* that holds one, and null exactly when no applicable source holds one.
C7_PriorityTotal ==
  tokres.kind # "pending" =>
    LET H == {s \in Sources : Holds(creds, s)}
    IN /\ tokres.kind = "return"
       /\ H # {} => tokres.val = TokenOf(CHOOSE s \in H : \A h \in H : s <= h)
       /\ H = {} <=> tokres.val = NoToken

\* Several sources hold a token, one of them not applicable on the platform,
\* and the result is the token of a credential file.
C7_Witness ==
  /\ tokres.kind = "return" /\ tokres.val = TokenOf(SrcFileAppdataCode)
  /\ creds.keychain = "token" /\ creds.files[SrcFileLocalappdata] = "token"

\* Source s is consulted and querying it fails.
Fails(cfg, s) ==
  Applicable(cfg, s) /\ OutcomeOf(cfg, s) \in {"fail", "malformed", "nofield"}

C9_NoCredentialRender ==
  /\ [](\A r \in Renders :
          (rend[r].pc = "exited" /\ rend[r].trig /\ ~rend[r].spawned)
            => /\ child[r].pc = "none"
               /\ rend[r].exit = 0
               /\ Len(rend[r].out) = 1)
  /\ [][\A r \in Renders : rend'[r] # rend[r] => cacheFile' = cacheFile]_vars

\* Some applicable source holds a token.
HasCredential(cfg) == \E s \in Sources : Holds(cfg, s)

\* C10: a fetch-only process that finds no credential exits with status 1
\* without a request and without changing the cache file; one that finds a
\* credential sends one request and exits with status 0; neither writes to
\* standard output.
C10_FetchOnlyExit ==
  /\ [][\A c \in Renders :
          (child[c].pc = "spawned" /\ child'[c].pc # "spawned") =>
            IF HasCredential(creds)
            THEN child'[c].pc = "requested" /\ child'[c].req = 1
            ELSE /\ child'[c].pc = "exited" /\ child'[c].exit = 1
                 /\ child'[c].req = 0 /\ cacheFile' = cacheFile]_vars
  /\ [](\A c \in Renders :
          /\ child[c].out = <<>>
          /\ (child[c].pc = "exited" /\ child[c].req = 1) => child[c].exit = 0
          /\ (child[c].pc = "exited" /\ child[c].req = 0) => child[c].exit = 1)

\* One child has exited with status 1 without a request, another with
\* status 0 after writing the cache.
C10_Witness ==
  \E c, d \in Renders :
    /\ child[c].pc = "exited" /\ child[c].exit = 1 /\ child[c].req = 0
    /\ Wrote(d) /\ child[d].exit = 0 /\ child[d].req = 1

\* The text is not one JSON object: it does not open with a brace, does not
\* close with one, or has a brace inside.
CorruptText(b) ==
  \/ Len(b) < 2
  \/ b[1] # Tok("{", 0)
  \/ b[Len(b)] # Tok("}", 0)
  \/ \E i \in 2..(Len(b) - 1) : b[i] \in {Tok("{", 0), Tok("}", 0)}

\* The text is a proper prefix of the text of a snapshot.
TruncatedText(b) ==
  \E s \in FetchSnaps :
    /\ Len(b) < Len(stringify(s))
    /\ b = SubSeq(stringify(s), 1, Len(b))

\* C11: loadJson never throws, and on a cache file that is missing,
\* unreadable, empty, truncated or otherwise not JSON it returns the
\* snapshot without fields.
C11_LoadNeverRaises ==
  loaded.kind # "pending" =>
    /\ loaded.kind = "return"
    /\ (\/ ~cacheFile.exists
        \/ ~cacheFile.readable
        \/ cacheFile.bytes = <<>>
        \/ TruncatedText(cacheFile.bytes)
        \/ CorruptText(cacheFile.bytes))
         => loaded.val = EmptySnap

\* A file cut off after its cached_at member was loaded as the empty
\* snapshot.
C11_Witness ==
  /\ loaded.kind = "return" /\ loaded.val = EmptySnap
  /\ cacheFile.exists /\ cacheFile.readable
  /\ cacheFile.bytes = <<Tok("{", 0), Tok("cached_at", 1)>>

\* C12: a load made after a save, with no write in between, returns the
\* snapshot that was saved.
C12_RoundTrip ==
  (loaded.kind # "pending" /\ saved.cached_at # 0) =>
    loaded.kind = "return" /\ loaded.val = saved

\* A snapshot with both usage windows, of different values, was saved over
\* an earlier file and loaded back.
C12_Witness ==
  /\ loaded.kind = "return" /\ loaded.val = saved
  /\ saved.cached_at = 2 /\ saved.five_hour = 1 /\ saved.seven_day = 2

\* The number of requests the children of renders 1..n have issued.
RECURSIVE Attempts(_)
Attempts(n) == IF n = 0 THEN 0 ELSE child[n].req + Attempts(n - 1)

Invocations == Cardinality({r \in Renders : rend[r].pc # "idle"})

\* C14: no retry and no fan-out.  A child issues at most one request, also
\* after a failure; a child exists only as the one child of the render that
\* spawned it; so the requests issued never exceed the renders invoked.
C14_NoRetryNoFanOut ==
  /\ \A c \in Renders :
       /\ child[c].req <= 1
       /\ child[c].net \in {"error", "timeout"} => child[c].pc = "exited"
       /\ child[c].pc # "none" => rend[c].spawned
  /\ Attempts(MaxRenders) <= Invocations

\* Two renders were invoked, each child issued its request, one failed.
C14_Witness ==
  /\ Attempts(MaxRenders) = 2
  /\ \E c \in Renders :
       child[c].net = "error" /\ child[c].pc = "exited" /\ child[c].req = 1

\* C15: every fetch-only child that was spawned exits on its own, whatever
\* the network does.
C15_ChildTerminates ==
  \A c \in Renders : (child[c].pc = "spawned") ~> (child[c].pc = "exited")

\* ---------------------------------------------- the interactive bootstrap
\* Values of a statusLine member of the settings: the command of another
\* program; exactly {type: "command", command: cmd}; an entry whose command
\* is cmd and that has further fields.
SlOther == 1
SlThis == 2
SlThisMore == 3

\* Keys of the settings document: statusLine, and one that is not.
OtherKeys == {"theme"}
MemberKeys == {"statusLine"} \cup OtherKeys

\* A settings document: what JSON.parse returns.  members are the top-level
\* members of an object, in insertion order.
Doc(kind, members) == [kind |-> kind, members |-> members]

\* let settings = {};
EmptyDoc == Doc("object", <<>>)

\* White space between the lexical units of a text.
IsInk(t) == t.k # "nl"

\* The members of an object text: a repeated key keeps its first place and
\* its last value.
RECURSIVE dedupe(_, _)
dedupe(t, seen) ==
  IF t = <<>> THEN <<>>
  ELSE IF Head(t).k \in seen THEN dedupe(Tail(t), seen)
  ELSE <<Tok(Head(t).k, member(t, Head(t).k))>>
       \o dedupe(Tail(t), seen \cup {Head(t).k})

\* JSON.parse(text) of the settings file: any JSON value, throws otherwise.
parseSettings(b) ==
  LET t == SelectSeq(b, IsInk)
  IN IF t = <<Tok("null", 0)>> THEN Return(Doc("null", <<>>))
     ELSE IF t = <<Tok("num", 0)>> THEN Return(Doc("scalar", <<>>))
     ELSE IF t = <<Tok("[", 0), Tok("]", 0)>> THEN Return(Doc("array", <<>>))
     ELSE IF /\ Len(t) >= 2
             /\ t[1].k = "{"
             /\ t[Len(t)].k = "}"
             /\ \A i \in 2..(Len(t) - 1) : t[i].k \in MemberKeys
     THEN Return(Doc("object", dedupe(SubSeq(t, 2, Len(t) - 1), {})))
     ELSE Throw

\* JSON.stringify(settings, null, 2): one member per line; an object with no
\* member and an array with no element have no line break.  A property set
\* on an array is not an element and is not written.
stringifyPretty(d) ==
  IF d.kind = "null" THEN <<Tok("null", 0)>>
  ELSE IF d.kind = "scalar" THEN <<Tok("num", 0)>>
  ELSE IF d.kind = "array" THEN <<Tok("[", 0), Tok("]", 0)>>
  ELSE IF d.members = <<>> THEN <<Tok("{", 0), Tok("}", 0)>>
  ELSE <<Tok("{", 0)>>
       \o [i \in 1..(2 * Len(d.members)) |->
             IF i % 2 = 1 THEN Tok("nl", 0) ELSE d.members[i \div 2]]
       \o <<Tok("nl", 0), Tok("}", 0)>>

\* The same value on one line, as another writer may have left it.
stringifyCompact(d) == SelectSeq(stringifyPretty(d), IsInk)

\* settings?.statusLine?.command === cmd
alreadyConfigured(d) ==
  /\ d.kind = "object"
  /\ member(d.members, "statusLine") \in {SlThis, SlThisMore}

\* settings.statusLine = { type: "command", command: cmd } in a module
\* (strict mode): throws on null and on a primitive, replaces the member in
\* its place or adds it last on an object, sets a property on an array.
setStatusLine(d) ==
  IF d.kind \in {"null", "scalar"} THEN Throw
  ELSE IF d.kind = "array" THEN Return(d)
  ELSE IF \E i \in 1..Len(d.members) : d.members[i].k = "statusLine"
  THEN Return(Doc("object",
         [i \in 1..Len(d.members) |->
            IF d.members[i].k = "statusLine" THEN Tok("statusLine", SlThis)
            ELSE d.members[i]]))
  ELSE Return(Doc("object", Append(d.members, Tok("statusLine", SlThis))))

\* The lines the bootstrap prints.
MsgAlready == "Already configured as Claude Code statusline."
MsgConfigured == "Claude Code statusline configured!"
MsgRestart == "Restart Claude Code to apply."

\* What the bootstrap reads: settings = {} unless the file exists and parses.
readSettings(f) ==
  LET r == Catch(IF f.exists
                 THEN LET t == readFileSync(f)
                      IN IF t.kind = "throw" THEN Throw
                         ELSE parseSettings(t.val)
                 ELSE FallThrough)
  IN IF r.kind = "return" THEN r.val ELSE EmptyDoc

\* Bootstrap that writes a new document holding the statusLine entry alone.
Bootstrap_fresh(b) ==
  LET d == readSettings(settings)
      a == setStatusLine(EmptyDoc)
  IN /\ boot[b].pc = "idle"
     /\ b > 1 => boot[b - 1].pc = "exited"
     /\ IF alreadyConfigured(d)
        THEN /\ boot' = [boot EXCEPT ![b] =
                  [pc |-> "exited", out |-> <<MsgAlready>>, exit |-> 0]]
             /\ UNCHANGED settings
        ELSE /\ settings' = writeAt0(openTrunc(settings), stringifyPretty(a.val))
             /\ boot' = [boot EXCEPT ![b] =
                  [pc |-> "exited", out |-> <<MsgConfigured, MsgRestart>>,
                   exit |-> 0]]
     /\ UNCHANGED <<pureVars, creds, tokres, cacheFile, rend, child>>

\* main() with standard input a terminal: lines 259-279.  The runs are
\* started by hand, one after the other.  An uncaught TypeError ends the
\* process with status 1 before anything is written or printed.
Bootstrap(b) ==
  LET d == readSettings(settings)
      a == setStatusLine(d)
  IN /\ boot[b].pc = "idle"
     /\ b > 1 => boot[b - 1].pc = "exited"
     /\ IF alreadyConfigured(d)
        THEN /\ boot' = [boot EXCEPT ![b] =
                  [pc |-> "exited", out |-> <<MsgAlready>>, exit |-> 0]]
             /\ UNCHANGED settings
        ELSE IF a.kind = "throw"
        THEN /\ boot' = [boot EXCEPT ![b] =
                  [pc |-> "exited", out |-> <<>>, exit |-> 1]]
             /\ UNCHANGED settings
        ELSE /\ settings' = writeAt0(openTrunc(settings), stringifyPretty(a.val))
             /\ boot' = [boot EXCEPT ![b] =
                  [pc |-> "exited", out |-> <<MsgConfigured, MsgRestart>>,
                   exit |-> 0]]
     /\ UNCHANGED <<pureVars, creds, tokres, cacheFile, rend, child>>

\* ------------------------------------ specification: the bootstrap alone
\* Member lists of the settings objects found at the start.
MemberSeqs ==
  {<<>>, <<Tok("theme", 1)>>}
  \cup UNION {{<<Tok("statusLine", v)>>,
               <<Tok("statusLine", v), Tok("theme", 1)>>,
               <<Tok("theme", 1), Tok("statusLine", v)>>} :
                 v \in {SlOther, SlThis, SlThisMore}}

SettingsDocs ==
  {Doc("object", m) : m \in MemberSeqs}
  \cup {Doc("null", <<>>), Doc("scalar", <<>>), Doc("array", <<>>)}

ValidTexts ==
  {stringifyPretty(d) : d \in SettingsDocs}
  \cup {stringifyCompact(d) : d \in SettingsDocs}

\* Texts cut short (a writer interrupted, an edit not finished).
CutTexts == UNION {{SubSeq(t, 1, n) : n \in 0..(Len(t) - 1)} : t \in ValidTexts}

\* Settings files found at the start: missing, any JSON value, corrupt.
SettingsFiles ==
  {AbsentFile}
  \cup {[exists |-> TRUE, readable |-> TRUE, bytes |-> t] :
          t \in ValidTexts \cup CutTexts}

\* A cache file an earlier fetch left.
EarlierCache ==
  [exists |-> TRUE, readable |-> TRUE, bytes |-> stringify(Snap(1, 1, 1))]

InitBoot ==
  /\ settings \in SettingsFiles
  /\ boot = [b \in Boots |-> BootIdle]
  /\ creds \in RunCreds
  /\ cacheFile \in {AbsentFile, EarlierCache}
  /\ tokres = Pending
  /\ rend = [r \in Renders |-> RenderIdle]
  /\ child = [c \in Renders |-> ChildNone]
  /\ PureUnused

NextBoot == \E b \in Boots : Bootstrap(b)

SpecBoot == InitBoot /\ [][NextBoot]_vars

\* The settings name this program as the statusline command.
NamesThisProgram(f) == f.exists /\ alreadyConfigured(readSettings(f))

\* C17: the bootstrap is idempotent for every initial settings file.  After
\* the first run the settings name this program; a later run writes nothing,
\* leaves the file as it is and prints the already-configured line alone; no
\* run prints anything but the bootstrap's own messages.
C17_BootstrapIdempotent ==
  /\ [](boot[1].pc = "exited" => NamesThisProgram(settings))
  /\ [](\A b \in Boots : \A i \in 1..Len(boot[b].out) :
          boot[b].out[i] \in {MsgAlready, MsgConfigured, MsgRestart})
  /\ [][\A b \in Boots :
          (b > 1 /\ boot[b].pc = "idle" /\ boot'[b].pc = "exited")
            => settings' = settings /\ boot'[b].out = <<MsgAlready>>]_vars

\* Value of the top-level setting k of a settings file; 0 when the file has
\* no document, the document is not an object, or k is not in it.
Setting(f, k) ==
  IF f.exists /\ parseSettings(f.bytes).kind = "return"
               /\ parseSettings(f.bytes).val.kind = "object"
  THEN member(parseSettings(f.bytes).val.members, k)
  ELSE 0

MaxSysRenders == 1

SysRenders == 1..MaxSysRenders

\* Settings files the whole system starts from: none, a document with
\* another setting, a value that is not a document.
SysSettingsFiles ==
  {AbsentFile,
   [exists |-> TRUE, readable |-> TRUE,
    bytes |-> stringifyPretty(Doc("object", <<Tok("theme", 1)>>))],
   [exists |-> TRUE, readable |-> TRUE,
    bytes |-> stringifyPretty(Doc("null", <<>>))]}

InitSys ==
  /\ creds \in RunCreds
  /\ tokres = Pending
  /\ cacheFile = AbsentFile
  /\ rend = [r \in Renders |-> RenderIdle]
  /\ child = [c \in Renders |-> ChildNone]
  /\ settings \in SysSettingsFiles
  /\ boot = [b \in Boots |-> BootIdle]
  /\ PureUnused

NextSys ==
  \/ \E r \in SysRenders, in \in StdinKinds : RenderStart(r, in)
  \/ \E r \in SysRenders : RenderLoadCache(r)
  \/ \E r \in SysRenders : RenderFetchUsage(r)
  \/ \E r \in SysRenders : RenderOutput(r)
  \/ \E c \in SysRenders : ChildStart(c)
  \/ \E c \in SysRenders : ChildError(c)
  \/ \E c \in SysRenders : ChildTimeout(c)
  \/ \E c \in SysRenders, resp \in RunResponses : ChildEnd(c, resp)
  \/ \E c \in SysRenders : ChildWrite(c)
  \/ CredsChange
  \/ \E b \in Boots : Bootstrap(b)

SpecSys == InitSys /\ [][NextSys]_vars

\* C13: the cache file is changed by fetch-only children alone.  A step that
\* creates, writes, truncates or deletes it is a step of a child that has
\* its response; it is no step of a render invocation and no step of a
\* bootstrap run.
C13_OnlyChildMutatesCache ==
  [][cacheFile' # cacheFile =>
       /\ \E c \in Renders :
            /\ child[c].pc \in {"requested", "receiving", "writing"}
            /\ child'[c] # child[c]
       /\ rend' = rend
       /\ boot' = boot]_vars

\* A render invocation and a bootstrap run have ended and the cache file
\* exists: the child wrote it.
C13_Witness ==
  /\ cacheFile.exists
  /\ cacheFile.bytes # <<>>
  /\ child[1].pc = "exited"
  /\ rend[1].pc = "exited"
  /\ rend[1].out # <<>>
  /\ boot[1].pc = "exited"

\* The token values the credential stores can yield.
Tokens == {TokenOf(s) : s \in Sources}

\* The values a text carries.
ValuesOf(b) == {b[i].v : i \in 1..Len(b)}

\* C16: the credential is not persisted and not leaked.  No token is in the
\* cache file, in the settings file, in a printed line of a render, a child
\* or a bootstrap run, in the text a child is about to write, or in the
\* arguments of a spawned child; a child holds it for its request only.
C16_CredentialNotLeaked ==
  /\ ValuesOf(cacheFile.bytes) \cap Tokens = {}
  /\ ValuesOf(settings.bytes) \cap Tokens = {}
  /\ \A r \in Renders : \A i \in 1..Len(rend[r].out) :
       rend[r].out[i].five \notin Tokens /\ rend[r].out[i].seven \notin Tokens
  /\ \A c \in Renders :
       /\ ValuesOf(child[c].argv) \cap Tokens = {}
       /\ ValuesOf(child[c].buf) \cap Tokens = {}
       /\ child[c].out = <<>>
       /\ child[c].pc # "none" => child[c].argv = fetchOnlyArgv
  /\ \A b \in Boots : \A i \in 1..Len(boot[b].out) :
       boot[b].out[i] \in {MsgAlready, MsgConfigured, MsgRestart}

\* A child resolved a token, sent its request and wrote the cache; a render
\* printed its line and a bootstrap run wrote the settings.
C16_Witness ==
  /\ child[1].tok \in Tokens
  /\ child[1].pc = "exited" /\ child[1].exit = 0
  /\ cacheFile.bytes # <<>>
  /\ rend[1].out # <<>>
  /\ boot[1].out = <<MsgConfigured, MsgRestart>>

\* ------------------------------------ specification: the time text alone
\* Math.max(0, x)
max0(x) == IF x > 0 THEN x ELSE 0

\* A time text: "d_h" is (<a>d<b>h), "h_m" is (<a>h<b>m), "m" is (<a>m).
Text(form, a, b) == [form |-> form, a |-> a, b |-> b]

\* formatTime with the days form from 24 whole hours on.
formatTime_fromOneDay(delta) ==
  LET secs == max0(delta)
      h == secs \div 3600
      m == (secs % 3600) \div 60
  IN IF h >= 24 THEN Text("d_h", h \div 24, h % 24)
     ELSE IF h > 0 THEN Text("h_m", h, m)
     ELSE Text("m", m, 0)

\* Lines 336-345: the text for a reset delta seconds away (delta is
\* Math.floor of the difference in milliseconds over 1000).
formatTime(delta) ==
  LET secs == max0(delta)
      h == secs \div 3600
      m == (secs % 3600) \div 60
  IN IF h > 24 THEN Text("d_h", h \div 24, h % 24)
     ELSE IF h > 0 THEN Text("h_m", h, m)
     ELSE Text("m", m, 0)

\* Largest number of whole hours to the reset, and of seconds since it.
MaxHours == 73
MaxPast == 3

\* Seconds to the reset: past resets, and every hour with minutes and
\* seconds at and next to their ends.
Deltas ==
  {-d : d \in 1..MaxPast}
  \cup {h * 3600 + m * 60 + sec :
          h \in 0..MaxHours, m \in {0, 1, 30, 59}, sec \in {0, 1, 59}}

InitTime ==
  /\ secsIn \in Deltas
  /\ timeTxt = NoText
  /\ saved = EmptySnap
  /\ loaded = Pending
  /\ creds = LoggedOut
  /\ tokres = Pending
  /\ cacheFile = AbsentFile
  /\ rend = [r \in Renders |-> RenderIdle]
  /\ child = [c \in Renders |-> ChildNone]
  /\ BootUnused

Format ==
  /\ timeTxt = NoText
  /\ timeTxt' = formatTime(secsIn)
  /\ UNCHANGED <<creds, tokres, cacheFile, rend, child, bootVars, saved,
                 loaded, secsIn>>

NextTime == Format

SpecTime == InitTime /\ [][NextTime]_vars

\* Seconds of a day and of an hour.
Hour == 3600
Day == 24 * Hour

\* C18 as stated: the days form whenever more than 24 hours remain.
C18_TimeText ==
  timeTxt # NoText =>
    LET s == max0(secsIn)
    IN IF s > Day
       THEN timeTxt = Text("d_h", s \div Day, (s % Day) \div Hour)
       ELSE IF s >= Hour
       THEN timeTxt = Text("h_m", s \div Hour, (s % Hour) \div 60)
       ELSE timeTxt = Text("m", s \div 60, 0)

\* C18, amended: the seconds are clamped to 0; with 25 or more whole hours
\* remaining the text is (<d>d<h>h), d whole days and h the remaining whole
\* hours; otherwise with 1 or more whole hours it is (<h>h<m>m); otherwise
\* it is (<m>m).  No part of the text is negative.
C18_TimeTextWholeHours ==
  timeTxt # NoText =>
    LET s == max0(secsIn)
    IN /\ timeTxt.a >= 0 /\ timeTxt.b >= 0
       /\ IF s >= 25 * Hour
          THEN timeTxt = Text("d_h", s \div Day, (s % Day) \div Hour)
          ELSE IF s >= Hour
          THEN timeTxt = Text("h_m", s \div Hour, (s % Hour) \div 60)
          ELSE timeTxt = Text("m", s \div 60, 0)

\* 24 hours and 30 minutes remain: the text is (24h30m).
C18_Witness ==
  secsIn = 24 * Hour + 30 * 60 /\ timeTxt = Text("h_m", 24, 30)

\* ------------------------- specification: renders with successful fetches
\* Render invocations, each with valid input, a stored credential and a
\* usage response of status 200.
MaxStaleRenders == 3

StaleRenders == 1..MaxStaleRenders

OkResponses == {resp \in RunResponses : resp.status = StatusOk}

InitStale ==
  /\ creds = LoggedIn
  /\ tokres = Pending
  /\ cacheFile = AbsentFile
  /\ rend = [r \in StaleRenders |-> RenderIdle]
  /\ child = [c \in StaleRenders |-> ChildNone]
  /\ BootUnused
  /\ PureUnused

NextStale ==
  \/ \E r \in StaleRenders : RenderStart(r, "value")
  \/ \E r \in StaleRenders : RenderLoadCache(r)
  \/ \E r \in StaleRenders : RenderFetchUsage(r)
  \/ \E r \in StaleRenders : RenderOutput(r)
  \/ \E c \in StaleRenders : ChildStart(c)
  \/ \E c \in StaleRenders, resp \in OkResponses : ChildEnd(c, resp)
  \/ \E c \in StaleRenders : ChildWrite(c)

SpecStale == InitStale /\ [][NextStale]_vars

\* C19: one-cycle staleness.  The cache a render invocation loaded, and the
\* line it prints, hold nothing of the fetch it triggered itself (the
\* snapshot of child r carries r).  A render invocation that loads the cache
\* when some fetch has written and every fetch has ended displays the usage
\* windows of the snapshot of a fetch that wrote.
C19_OneCycleStale ==
  /\ [](\A r \in StaleRenders :
          /\ rend[r].cache.cached_at # r
          /\ \A i \in 1..Len(rend[r].out) :
               rend[r].out[i].five # r /\ rend[r].out[i].seven # r)
  /\ [][\A r \in StaleRenders :
          (/\ rend[r].pc = "parsed" /\ rend'[r].pc = "loaded"
           /\ \A c \in StaleRenders : child[c].pc \in {"none", "exited"}
           /\ \E c \in StaleRenders : Wrote(c))
            => \E c \in StaleRenders :
                 /\ Wrote(c)
                 /\ renderLine(rend'[r].cache)
                      = renderLine(parseJson(child[c].buf).val)]_vars
====
